---- MODULE Spec2Model ----
(***************************************************************************)
(* A model of the thread-scoped log aggregation of jakebowkett/go-log      *)
(* (package logger): the sync.Map store with its "_status" side keys, the  *)
(* entry factory logEntry/insertEntry, the finalization end with its two   *)
(* observers, the id counter behind NewId, and the Session facade.         *)
(*                                                                         *)
(* Goroutines calling into one Logger are the processes Procs.  Every      *)
(* sync.Map operation (Load, Store, Delete) is atomic on its own, and a    *)
(* method that makes several of them is a sequence of steps; the local     *)
(* computation between two map operations is attached to the operation    *)
(* before it.                                                              *)
(***************************************************************************)
EXTENDS Integers, Sequences, FiniteSets, TLC

\* ------------------------------------------------------------------ bounds
MaxLogCalls == 3    \* logging calls (Info/Error/Debug and variants) in a run
MaxEnds == 2        \* Logger.End calls in a run
MaxStatus == 1      \* status-setting calls in a run
MaxIds == 3         \* identifiers drawn from the counter in a run
MaxSessEnds == 2    \* Session.End calls in a run
MaxData == 1        \* Entry.Data calls in a run
MaxSeen == 2        \* Session.SeenError calls in a run
MaxFatal == 2       \* Logger.Fatal calls in a run
MaxMulti == 2       \* Entry.DataMulti calls in a run
MaxKeyVals == 4     \* annotations an entry can hold before memory runs out

\* ------------------------------------------------------------- input sets
Procs == {"p1", "p2"}

\* Request ids are the caller's strings; "r_status" is the side key of "r".
ReqIds == {"r", "r_status"}

\* A Go string is its bytes: a message is the sequence of them, an ASCII
\* byte written as its character and any other byte as its two hex digits.
Msgs == {<<"o", "k">>, <<"O", "k", ".">>}

\* Messages for the normalisation: "failed", "already done.", the empty
\* string, "\u00e9t" (its first rune is the two bytes C3 A9), and two strings
\* that start with the byte FF, which begins no UTF-8 sequence.
NormMsgs ==
    {<<"f", "a", "i", "l", "e", "d">>,
     <<"a", "l", "r", "e", "a", "d", "y", " ", "d", "o", "n", "e", ".">>,
     <<>>,
     <<"C3", "A9", "t">>,
     <<"FF", "a", "b">>,
     <<"FF">>}

StatusCodes == {404}

ReqMetas == {[ip |-> "10.0.0.1", method |-> "GET", route |-> "/a", duration |-> 5]}

SessNames == {"job"}

\* The Sessions a run makes, by their place in the order of creation.
SessionSlots == {1}

DataKeys == {"k"}
DataVals == {"v"}

\* What runtime.Caller(3) can report: a frame, or failure.  The function name
\* is the sequence of its "/"-separated segments.
SomeCaller == [ok |-> TRUE, function |-> <<"app", "pkg.Handler">>, file |-> "/src/app/h.go", line |-> 7]
CallerResults == {SomeCaller, [ok |-> FALSE, function |-> <<>>, file |-> "", line |-> 0]}

\* The status-setting methods and the code each stores (HttpStatus and
\* Redirect take theirs from the caller).
StatusMethods == {"HttpStatus", "Redirect", "Unauthorised", "NotFound"}

\* ------------------------------------------------------ levels and kinds
levelInfo == "Info"
levelError == "Error"
levelDebug == "Debug"

kindRequest == "request"
kindSession == "session"

\* The public logging methods and the level each passes to logEntry.
LogMethods == {"Info", "Error", "Debug", "InfoF", "ErrorF", "DebugF"}

MethodLevel(m) ==
    IF m \in {"Info", "InfoF"} THEN levelInfo
    ELSE IF m \in {"Error", "ErrorF"} THEN levelError
    ELSE levelDebug

\* ------------------------------------------------------------ conversions
DigitStr == <<"0", "1", "2", "3", "4", "5", "6", "7", "8", "9">>

RECURSIVE FormatNat(_)
FormatNat(n) ==
    IF n < 10 THEN DigitStr[n + 1]
    ELSE FormatNat(n \div 10) \o DigitStr[(n % 10) + 1]

\* strconv.FormatInt(n, 10)
FormatInt(n) == IF n < 0 THEN "-" \o FormatNat(0 - n) ELSE FormatNat(n)

LowerRunes == <<"a", "b", "c", "d", "e", "f", "g", "h", "i", "j", "k", "l", "m",
                "n", "o", "p", "q", "r", "s", "t", "u", "v", "w", "x", "y", "z">>
UpperRunes == <<"A", "B", "C", "D", "E", "F", "G", "H", "I", "J", "K", "L", "M",
                "N", "O", "P", "Q", "R", "S", "T", "U", "V", "W", "X", "Y", "Z">>

\* unicode.ToUpper of an ASCII rune.
ToUpperRune(c) ==
    IF \E i \in 1..Len(LowerRunes) : LowerRunes[i] = c
    THEN UpperRunes[CHOOSE i \in 1..Len(LowerRunes) : LowerRunes[i] = c]
    ELSE c

\* Bytes: ASCII ones are single characters; C3 leads a two-byte sequence
\* with a continuation byte (C3 A9 is U+00E9, C3 89 is U+00C9); EF BF BD is
\* the encoding of utf8.RuneError, U+FFFD.
IsASCII(b) == Len(b) = 1
ContinuationBytes == {"A9", "89", "BF", "BD"}
RuneErrorBytes == <<"EF", "BF", "BD">>

\* The first step of "for _, r := range msg": the rune decoded at the start
\* of a non-empty string, given by the bytes of string(r), and the number of
\* bytes it was decoded from.  A byte that starts no valid sequence decodes
\* to utf8.RuneError from one byte.
DecodeRune(msg) ==
    IF IsASCII(msg[1]) THEN [str |-> <<msg[1]>>, size |-> 1]
    ELSE IF msg[1] = "C3" /\ Len(msg) >= 2 /\ msg[2] \in ContinuationBytes
    THEN [str |-> <<msg[1], msg[2]>>, size |-> 2]
    ELSE IF Len(msg) >= 3 /\ SubSeq(msg, 1, 3) = RuneErrorBytes
    THEN [str |-> RuneErrorBytes, size |-> 3]
    ELSE [str |-> RuneErrorBytes, size |-> 1]

\* strings.ToUpper(string(r))
ToUpper(str) ==
    IF Len(str) = 1 THEN <<ToUpperRune(str[1])>>
    ELSE IF str = <<"C3", "A9">> THEN <<"C3", "89">>
    ELSE str

\* strings.HasSuffix(msg, ".")
HasSuffixDot(msg) == Len(msg) > 0 /\ msg[Len(msg)] = "."

\* msg += "." unless it ends with one.
WithPeriod(msg) == IF HasSuffixDot(msg) THEN msg ELSE Append(msg, ".")

\* Whether msg[len(string(r)):] is out of range, which panics.
NormalisePanics(msg) == Len(DecodeRune(WithPeriod(msg)).str) > Len(WithPeriod(msg))

\* logEntry's message normalisation: the period, then
\* strings.ToUpper(string(r)) + msg[len(string(r)):] for the first rune r.
NormaliseMsg(msg) ==
    LET m1 == WithPeriod(msg)
        r == DecodeRune(m1)
    IN  ToUpper(r.str) \o SubSeq(m1, Len(r.str) + 1, Len(m1))

\* The key of the status side table for a request id.
StatusKey(reqId) == reqId \o "_status"

\* ------------------------------------------------------------------ state
VARIABLES
    logs,        \* Logger.logs: the sync.Map, a function from its present keys
    heap,        \* the *Entry objects allocated so far; a pointer is an index
    idCount,     \* Logger.idCount
    idCountMu,   \* Logger.idCountMu: "" when free, else the holder
    debug,       \* Logger.debug
    runtime,     \* Logger.runtime
    OnLog,       \* whether Logger.OnLog is set
    OnError,     \* whether Logger.OnError is set
    sessions,    \* the Session objects made by Sess
    pc,          \* where each goroutine is
    frame,       \* the locals of the call each goroutine is in
    ret,         \* the *Entry the goroutine's last logging call returned (0: none)
    finals,      \* history: one record per finished call of end, with the
                 \* observer invocations it made
    issued,      \* history: the values NewId returned, in order of return
    calls,       \* history: how many calls of each kind were made
    insOverlap,  \* history: two inserts on one thread id were ever in flight together
    origin,      \* history: for each heap object, the call that allocated it
    statusEver,  \* history: the code last set for each request id a status was
                 \* ever set for
    seen,        \* history: what each SeenError call returned, and what was buffered
    IdGenerator, \* whether Logger.IdGenerator is set (the variant of src/unnamed/part_000)
    rendered     \* the last rendering of a record: the renderer, the record, the text

vars == <<logs, heap, idCount, idCountMu, debug, runtime, OnLog, OnError,
          sessions, pc, frame, ret, finals, issued, calls, insOverlap, origin,
          statusEver,
          seen,
          IdGenerator,
          rendered>>

\* The zero value &Entry{}.
ZeroEntry ==
    [ThreadId |-> "", Level |-> "", Function |-> "", File |-> "",
     Message |-> <<>>, Line |-> 0, KeyVals |-> <<>>]

\* The values the map holds: a []*Entry under a thread id, an int under a
\* status key.
EntriesVal(ee) == [type |-> "entries", ee |-> ee, code |-> 0]
IntVal(code) == [type |-> "int", ee |-> <<>>, code |-> code]

NoFrame ==
    [e |-> 0, kind |-> "", id |-> "", meta |-> [ip |-> "", method |-> "", route |-> "", duration |-> 0],
     ok |-> FALSE, loaded |-> EntriesVal(<<>>), ee |-> <<>>, then |-> "",
     name |-> "", sess |-> 0, pre |-> {}, quiet |-> FALSE, first |-> FALSE, before |-> {},
     gen |-> "", msg |-> <<>>, count0 |-> 0,
     kvs |-> <<>>, kv0 |-> <<>>, k |-> "", v |-> "", done |-> FALSE]

\* No record was rendered yet.
NoRender == [fmt |-> "", i |-> 0, j |-> 0, header |-> <<>>, parts |-> <<>>, out |-> <<>>]

\* sync.Map operations.
EmptyMap == [x \in {} |-> EntriesVal(<<>>)]
Loaded(k) == k \in DOMAIN logs
\* Faulty variant: a Store that puts every value under the one key "r".
MapStore_OneKey(m, k, v) == [x \in (DOMAIN m) \cup {"r"} |-> IF x = "r" THEN v ELSE m[x]]
MapStore(m, k, v) == [x \in (DOMAIN m) \cup {k} |-> IF x = k THEN v ELSE m[x]]
\* Faulty variant: a Delete that removes nothing.
MapDelete_Keeps(m, k) == m
MapDelete(m, k) == [x \in (DOMAIN m) \ {k} |-> m[x]]

Range(s) == {s[i] : i \in 1..Len(s)}

Init ==
    /\ logs = EmptyMap
    /\ heap = <<>>
    /\ idCount = 0
    /\ idCountMu = ""
    /\ debug = FALSE
    /\ runtime = FALSE
    /\ OnLog \in BOOLEAN
    /\ OnError \in BOOLEAN
    /\ sessions = <<>>
    /\ pc = [p \in Procs |-> "idle"]
    /\ frame = [p \in Procs |-> NoFrame]
    /\ ret = [p \in Procs |-> 0]
    /\ finals = <<>>
    /\ issued = <<>>
    /\ calls = [log |-> 0, end |-> 0, status |-> 0, id |-> 0, sess |-> 0, sessEnd |-> 0,
                data |-> 0, seen |-> 0, fatal |-> 0, multi |-> 0]
    /\ insOverlap = FALSE
    /\ origin = <<>>
    /\ statusEver = [x \in {} |-> 0]
    /\ seen = <<>>
    /\ IdGenerator = FALSE
    /\ rendered = NoRender

\* ------------------------------------------------------------- predicates
\* The entries whose insert on thread id t has returned: on the heap with
\* ThreadId t, and no goroutine is still inside insertEntry with them.
InFlight(t) == {q \in Procs : pc[q] = "insertStore" /\ heap[frame[q].e].ThreadId = t}
Inserting == {frame[q].e : q \in {x \in Procs : pc[x] = "insertStore"}}
ReturnedOn(t) ==
    {e \in 1..Len(heap) : heap[e].ThreadId = t /\ heap[e].Level # "" /\ e \notin Inserting}

\* Goroutines inside end for thread id t, and whether end ever ran for t.
Ending(t) == {q \in Procs : pc[q] \in {"endDelete", "endFinish"} /\ frame[q].id = t}
EverEnded(t) == Ending(t) # {} \/ \E i \in 1..Len(finals) : finals[i].id = t

\* ----------------------------------------------------------------- toggles
\* Faulty variant: disabling debug logging also drops the Debug entries that
\* are buffered.
SetDebug_Purges(p, enabled) ==
    /\ pc[p] = "idle"
    /\ debug' = enabled
    /\ logs' = [t \in DOMAIN logs |->
                   IF logs[t].type = "entries" /\ ~enabled
                   THEN [logs[t] EXCEPT !.ee = SelectSeq(@, LAMBDA e : heap[e].Level # "Debug")]
                   ELSE logs[t]]
    /\ UNCHANGED <<rendered, IdGenerator, seen, heap, idCount, idCountMu, runtime, OnLog, OnError,
                   sessions, pc, frame, ret, finals, issued, calls, insOverlap, origin,
                   statusEver>>

\* SetDebug: the assignment under debugMu.
SetDebug(p, enabled) ==
    /\ pc[p] = "idle"
    /\ debug' = enabled
    /\ UNCHANGED <<rendered, IdGenerator, seen, logs, heap, idCount, idCountMu, runtime, OnLog, OnError, sessions,
                   pc, frame, ret, finals, issued, calls, insOverlap, origin, statusEver>>

\* SetRuntime: the assignment under runtimeMu.
SetRuntime(p, enabled) ==
    /\ pc[p] = "idle"
    /\ runtime' = enabled
    /\ UNCHANGED <<rendered, IdGenerator, seen, logs, heap, idCount, idCountMu, debug, OnLog, OnError, sessions,
                   pc, frame, ret, finals, issued, calls, insOverlap, origin,
                   statusEver>>

\* ------------------------------------------------------------ entry factory
\* Faulty variant: the test with its negation lost.
DebugSuppressed_Inverted(level) == level = levelDebug /\ debug

\* logEntry's test for a suppressed Debug entry.
DebugSuppressed(level) == level = levelDebug /\ ~debug

\* callSite: the function name cut to its last "/" segment.
CallSite(c) ==
    IF c.ok
    THEN [function |-> c.function[Len(c.function)], file |-> c.file, line |-> c.line]
    ELSE [function |-> "Unknown", file |-> "Unable to obtain call site", line |-> 0]

\* The Entry logEntry builds; site is what callSite returned, read only when
\* l.runtime is set.
NewEntry(level, threadId, msg, site) ==
    [ThreadId |-> threadId, Level |-> level,
     Function |-> IF runtime THEN site.function ELSE "",
     File |-> IF runtime THEN site.file ELSE "",
     Message |-> NormaliseMsg(msg),
     Line |-> IF runtime THEN site.line ELSE 0,
     KeyVals |-> <<>>]

\* History: the level a logging call asked for, whether debug logging and
\* call-site capture were enabled when it was made, and whether it was made
\* on an ended Session.
Origin(level, onEnded) ==
    [level |-> level, debug |-> debug, runtime |-> runtime, ended |-> onEnded]

\* logEntry up to and including insertEntry's Load (onEnded is history only:
\* whether the caller is an ended Session).  The message is normalised
\* first, which can panic.  A suppressed Debug call returns a fresh zero
\* Entry.  Otherwise the entry is allocated and the thread's slice is
\* loaded; a value that is no []*Entry makes the type assertion panic.  A
\* panic unwinds the call.
logEntry(p, level, threadId, msg, c, onEnded) ==
    LET eid == Len(heap) + 1
    IN  IF NormalisePanics(msg)
        THEN /\ ret' = [ret EXCEPT ![p] = 0]
             /\ UNCHANGED <<logs, heap, origin, pc, frame, insOverlap>>
        ELSE IF DebugSuppressed(level)
        THEN /\ heap' = Append(heap, ZeroEntry)
             /\ origin' = Append(origin, Origin(level, onEnded))
             /\ ret' = [ret EXCEPT ![p] = eid]
             /\ UNCHANGED <<logs, pc, frame, insOverlap>>
        ELSE IF Loaded(threadId) /\ logs[threadId].type # "entries"
        THEN /\ ret' = [ret EXCEPT ![p] = 0]
             /\ UNCHANGED <<logs, heap, origin, pc, frame, insOverlap>>
        ELSE /\ heap' = Append(heap, NewEntry(level, threadId, msg, CallSite(c)))
             /\ origin' = Append(origin, Origin(level, onEnded))
             /\ insOverlap' = (insOverlap \/ InFlight(threadId) # {})
             /\ pc' = [pc EXCEPT ![p] = "insertStore"]
             /\ frame' = [frame EXCEPT ![p] =
                    [frame[p] EXCEPT !.e = eid, !.id = threadId, !.msg = msg,
                                    !.ok = Loaded(threadId),
                                    !.loaded = IF Loaded(threadId) THEN logs[threadId]
                                               ELSE EntriesVal(<<>>)]]
             /\ UNCHANGED <<logs, ret>>

\* The slice insertEntry stores: the entry alone when Load found nothing,
\* else the loaded slice with the entry appended.  (append writes into the
\* loaded slice's backing array only at lengths 3, 5..7, ...; below that
\* it copies, so the slices are values here.)
SliceToStore(f) == IF f.ok THEN Append(f.loaded.ee, f.e) ELSE <<f.e>>

\* Faulty variant: Fatal exiting without its call of end.
AfterInsert_NoFlush(then) == IF then = "Fatal" THEN "fatalExit" ELSE "idle"

\* Where the caller of logEntry goes on: Fatal to its call of end, a logging
\* method returns.
AfterInsert(then) == IF then = "Fatal" THEN "fatalEnd" ELSE "idle"

\* insertEntry's Store, and what follows it in the caller: logEntry returns
\* the entry to a logging method or to Fatal, logIdGenError returns into
\* NewId, which goes on to defaultId.
InsertStore(p) ==
    /\ pc[p] = "insertStore"
    /\ logs' = MapStore(logs, frame[p].id, EntriesVal(SliceToStore(frame[p])))
    /\ IF frame[p].gen = "err"
       THEN /\ pc' = [pc EXCEPT ![p] = "newIdLock"]
            /\ UNCHANGED <<frame, ret>>
       ELSE IF frame[p].then = "Fatal"
       THEN /\ pc' = [pc EXCEPT ![p] = AfterInsert(frame[p].then)]
            /\ UNCHANGED <<frame, ret>>
       ELSE /\ pc' = [pc EXCEPT ![p] = AfterInsert(frame[p].then)]
            /\ frame' = [frame EXCEPT ![p] = NoFrame]
            /\ ret' = [ret EXCEPT ![p] = frame[p].e]
    /\ UNCHANGED <<rendered, IdGenerator, seen, heap, idCount, idCountMu, debug, runtime, OnLog, OnError, sessions,
                   finals, issued, calls, insOverlap, origin, statusEver>>

\* Logger.Info, Error, Debug, InfoF, ErrorF, DebugF; msg is the message after
\* fmt.Sprintf for the F variants.
LoggerLog(p, m, reqId, msg, c) ==
    /\ pc[p] = "idle"
    /\ calls.log < MaxLogCalls
    /\ calls' = [calls EXCEPT !.log = @ + 1]
    /\ logEntry(p, MethodLevel(m), reqId, msg, c, FALSE)
    /\ UNCHANGED <<rendered, IdGenerator, seen, idCount, idCountMu, debug, runtime, OnLog, OnError, sessions,
                   finals, issued, statusEver>>

\* Entry.Data on the entry the goroutine's last logging call returned.
Data(p, k, v) ==
    /\ pc[p] = "idle"
    /\ ret[p] # 0
    /\ calls.data < MaxData
    /\ calls' = [calls EXCEPT !.data = @ + 1]
    /\ heap' = [heap EXCEPT ![ret[p]].KeyVals = Append(@, [Key |-> k, Val |-> v])]
    /\ UNCHANGED <<rendered, IdGenerator, seen, logs, idCount, idCountMu, debug, runtime, OnLog, OnError, sessions,
                   pc, frame, ret, finals, issued, insOverlap, origin, statusEver>>

\* A KeyValuer is the finite sequence of pairs it yields: each call of Next
\* returns the next pair with done false, and once they are used up the
\* zero key and value with done true.
MultiPairs == {[Key |-> "a", Val |-> "1"], [Key |-> "b", Val |-> "2"]}
KeyValuers ==
    {<<>>} \cup {<<x>> : x \in MultiPairs} \cup {<<x, y>> : x, y \in MultiPairs}

\* kvs.Next() when n pairs were taken so far.
KvNext(kvs, n) ==
    IF n < Len(kvs)
    THEN [k |-> kvs[n + 1].Key, v |-> kvs[n + 1].Val, done |-> FALSE]
    ELSE [k |-> "", v |-> "", done |-> TRUE]

\* Entry.DataMulti on the entry the goroutine's last logging call returned,
\* up to and including the init statement of its for loop, the one place
\* where kvs.Next() is called.
DataMulti(p, kvs) ==
    /\ pc[p] = "idle"
    /\ ret[p] # 0
    /\ calls.multi < MaxMulti
    /\ calls' = [calls EXCEPT !.multi = @ + 1]
    /\ pc' = [pc EXCEPT ![p] = "multiLoop"]
    /\ frame' = [frame EXCEPT ![p] =
           [NoFrame EXCEPT !.e = ret[p], !.kvs = kvs, !.kv0 = heap[ret[p]].KeyVals,
                           !.k = KvNext(kvs, 0).k, !.v = KvNext(kvs, 0).v,
                           !.done = KvNext(kvs, 0).done]]
    /\ UNCHANGED <<rendered, IdGenerator, seen, logs, heap, idCount, idCountMu, debug, runtime,
                   OnLog, OnError, sessions, ret, finals, issued, insOverlap, origin,
                   statusEver>>

\* One test of the loop's condition !done: the body appends kv{k, v} and the
\* loop, which has no post statement, tests again; when done is set
\* DataMulti returns e.  The appends stop when memory runs out.
MultiLoop(p) ==
    /\ pc[p] = "multiLoop"
    /\ IF frame[p].done
       THEN /\ pc' = [pc EXCEPT ![p] = "idle"]
            /\ frame' = [frame EXCEPT ![p] = NoFrame]
            /\ UNCHANGED heap
       ELSE /\ Len(heap[frame[p].e].KeyVals) < MaxKeyVals
            /\ heap' = [heap EXCEPT ![frame[p].e].KeyVals =
                           Append(@, [Key |-> frame[p].k, Val |-> frame[p].v])]
            /\ UNCHANGED <<pc, frame>>
    /\ UNCHANGED <<rendered, IdGenerator, seen, logs, idCount, idCountMu, debug, runtime,
                   OnLog, OnError, sessions, ret, finals, issued, calls, insOverlap, origin,
                   statusEver>>

\* ------------------------------------------------------------------ status
StatusCode(m, code) ==
    IF m = "Unauthorised" THEN 401 ELSE IF m = "NotFound" THEN 404 ELSE code

\* HttpStatus, Redirect, Unauthorised, NotFound: the Store under the side key
\* (logStatus also tells the HeaderWriter, which is outside the Logger).
SetStatus(p, m, reqId, code) ==
    /\ pc[p] = "idle"
    /\ calls.status < MaxStatus
    /\ calls' = [calls EXCEPT !.status = @ + 1]
    /\ logs' = MapStore(logs, StatusKey(reqId), IntVal(StatusCode(m, code)))
    /\ statusEver' = [x \in (DOMAIN statusEver) \cup {reqId} |->
                          IF x = reqId THEN StatusCode(m, code) ELSE statusEver[x]]
    /\ UNCHANGED <<rendered, IdGenerator, seen, heap, idCount, idCountMu, debug, runtime, OnLog, OnError, sessions,
                   pc, frame, ret, finals, issued, insOverlap, origin>>

\* ------------------------------------------------------------ finalization
\* Faulty variant: the test made on the wrong kind.
SuppressSession_WrongKind(kind, ee) == kind = kindRequest /\ Len(ee) = 0

\* end's test for a session with nothing to report.
SuppressSession(kind, ee) == kind = kindSession /\ Len(ee) = 0

\* Faulty variant: the filter comparing with the wrong level.
IsErrorEntry_WrongLevel(e) == heap[e].Level = levelInfo

\* The test of end's filter loop.
IsErrorEntry(e) == heap[e].Level = levelError

\* var errs []*Entry with the Error-level entries appended in order; it stays
\* nil (here the empty sequence) when there is none.
ErrorEntries(ee) == SelectSeq(ee, IsErrorEntry)

\* status: the int under the side key, or 200.
DefaultStatus == 200

\* Faulty variant: status without its Load.
StatusOf_AlwaysDefault(reqId) == DefaultStatus

StatusOf(reqId) ==
    IF Loaded(StatusKey(reqId)) THEN logs[StatusKey(reqId)].code ELSE DefaultStatus

\* Whether status's type assertion status.(int) panics.
StatusPanics(reqId) == Loaded(StatusKey(reqId)) /\ logs[StatusKey(reqId)].type # "int"

\* The Thread value end builds (without its Date).
ThreadRecord(f, status) ==
    [Id |-> f.id, Kind |-> f.kind, Ip |-> f.meta.ip, Method |-> f.meta.method,
     Route |-> f.meta.route, Status |-> status, Duration |-> f.meta.duration,
     Entries |-> f.ee]

\* The record as it is after end's OnError block: log.Entries = errs is an
\* assignment to the one local log, made when errs is not nil.
AfterErrorBlock(log, ee) ==
    IF OnError /\ ErrorEntries(ee) # <<>>
    THEN [log EXCEPT !.Entries = ErrorEntries(ee)]
    ELSE log

\* Faulty variant: OnLog called before the OnError block.
Dispatch_LogFirst(log, ee) ==
    (IF OnLog THEN <<[obs |-> "OnLog", log |-> log]>> ELSE <<>>)
    \o (IF OnError /\ ErrorEntries(ee) # <<>>
        THEN <<[obs |-> "OnError", log |-> [log EXCEPT !.Entries = ErrorEntries(ee)]]>>
        ELSE <<>>)

\* The observer invocations of one end, in order.
Dispatch(log, ee) ==
    (IF OnError /\ ErrorEntries(ee) # <<>>
     THEN <<[obs |-> "OnError", log |-> AfterErrorBlock(log, ee)]>>
     ELSE <<>>)
    \o (IF OnLog THEN <<[obs |-> "OnLog", log |-> AfterErrorBlock(log, ee)]>> ELSE <<>>)

\* What a finished end leaves in the history.
Final(f, outcome, invoked) ==
    [kind |-> f.kind, id |-> f.id, drained |-> f.ee, outcome |-> outcome,
     invoked |-> invoked, found |-> f.ok, statusEver |-> f.id \in DOMAIN statusEver,
     lastStatus |-> IF f.id \in DOMAIN statusEver THEN statusEver[f.id] ELSE 0,
     pre |-> f.pre, quiet |-> f.quiet, first |-> f.first]

\* end up to and including its Load of the thread id.
endLoad(p, kind, threadId, meta) ==
    /\ pc' = [pc EXCEPT ![p] = IF Loaded(threadId) THEN "endDelete" ELSE "endFinish"]
    /\ frame' = [frame EXCEPT ![p] =
           [frame[p] EXCEPT !.kind = kind, !.id = threadId, !.meta = meta,
                           !.ok = Loaded(threadId),
                           !.loaded = IF Loaded(threadId) THEN logs[threadId]
                                      ELSE EntriesVal(<<>>),
                           !.pre = ReturnedOn(threadId),
                           !.quiet = (InFlight(threadId) = {}),
                           !.first = ~EverEnded(threadId)]]

\* Logger.End
End(p, reqId, meta) ==
    /\ pc[p] = "idle"
    /\ calls.end < MaxEnds
    /\ calls' = [calls EXCEPT !.end = @ + 1]
    /\ endLoad(p, kindRequest, reqId, meta)
    /\ UNCHANGED <<rendered, IdGenerator, seen, logs, heap, idCount, idCountMu, debug, runtime, OnLog, OnError,
                   sessions, ret, finals, issued, insOverlap, origin, statusEver>>

\* end's Delete, made when Load found the key, and the type assertion
\* entries.([]*Entry) after it, which panics on an int.
EndDelete(p) ==
    /\ pc[p] = "endDelete"
    /\ logs' = MapDelete(logs, frame[p].id)
    /\ IF frame[p].loaded.type = "entries"
       THEN /\ pc' = [pc EXCEPT ![p] = "endFinish"]
            /\ frame' = [frame EXCEPT ![p].ee = frame[p].loaded.ee]
            /\ UNCHANGED finals
       ELSE /\ pc' = [pc EXCEPT ![p] = "idle"]
            /\ frame' = [frame EXCEPT ![p] = NoFrame]
            /\ finals' = Append(finals, Final(frame[p], "panic", <<>>))
    /\ UNCHANGED <<rendered, IdGenerator, seen, heap, idCount, idCountMu, debug, runtime, OnLog, OnError, sessions,
                   ret, issued, calls, insOverlap, origin, statusEver>>

\* The rest of end: the session test, the status Load for a request, the
\* OnError block and the OnLog call.  end returns to the caller of End, or
\* into Fatal.
EndFinish(p) ==
    /\ pc[p] = "endFinish"
    /\ pc' = [pc EXCEPT ![p] = IF frame[p].then = "Fatal" THEN "fatalExit" ELSE "idle"]
    /\ frame' = [frame EXCEPT ![p] = IF frame[p].then = "Fatal" THEN frame[p] ELSE NoFrame]
    /\ finals' = Append(finals,
          IF SuppressSession(frame[p].kind, frame[p].ee)
          THEN Final(frame[p], "return", <<>>)
          ELSE IF frame[p].kind = kindRequest /\ StatusPanics(frame[p].id)
          THEN Final(frame[p], "panic", <<>>)
          ELSE Final(frame[p], "return",
                     Dispatch(ThreadRecord(frame[p],
                                  IF frame[p].kind = kindRequest THEN StatusOf(frame[p].id) ELSE 0),
                              frame[p].ee)))
    /\ UNCHANGED <<rendered, IdGenerator, seen, logs, heap, idCount, idCountMu, debug, runtime, OnLog, OnError,
                   sessions, ret, issued, calls, insOverlap, origin, statusEver>>

\* ---------------------------------------------------------------------- ids
\* Faulty variant: NewId without its mutex.
MuFree_NoLock == TRUE

\* idCountMu.Lock succeeds when nobody holds the mutex.
MuFree == idCountMu = ""

\* The entry into NewId; what is to be done with the id (returned by NewId,
\* or turned into a Session by Sess) goes into the frame.
newIdEnter(p, then, name) ==
    /\ calls.id < MaxIds
    /\ then = "Sess" => calls.sess < Cardinality(SessionSlots)
    /\ calls' = [calls EXCEPT !.id = @ + 1, !.sess = IF then = "Sess" THEN @ + 1 ELSE @]
    /\ pc' = [pc EXCEPT ![p] = "newIdLock"]
    /\ frame' = [frame EXCEPT ![p] =
           [NoFrame EXCEPT !.then = then, !.name = name, !.count0 = idCount,
                           !.before = {issued[i].id : i \in 1..Len(issued)}]]

\* Logger.NewId
NewId(p) ==
    /\ pc[p] = "idle"
    /\ newIdEnter(p, "NewId", "")
    /\ UNCHANGED <<rendered, IdGenerator, seen, logs, heap, idCount, idCountMu, debug, runtime, OnLog, OnError, sessions,
                   ret, finals, issued, insOverlap, origin, statusEver>>

\* Logger.Sess
Sess(p, name) ==
    /\ pc[p] = "idle"
    /\ newIdEnter(p, "Sess", name)
    /\ UNCHANGED <<rendered, IdGenerator, seen, logs, heap, idCount, idCountMu, debug, runtime, OnLog, OnError, sessions,
                   ret, finals, issued, insOverlap, origin, statusEver>>

\* l.idCountMu.Lock()
NewIdLock(p) ==
    /\ pc[p] = "newIdLock"
    /\ MuFree
    /\ idCountMu' = p
    /\ pc' = [pc EXCEPT ![p] = "newIdInc"]
    /\ UNCHANGED <<rendered, IdGenerator, seen, logs, heap, idCount, debug, runtime, OnLog, OnError, sessions,
                   frame, ret, finals, issued, calls, insOverlap, origin, statusEver>>

\* l.idCount++
NewIdInc(p) ==
    /\ pc[p] = "newIdInc"
    /\ idCount' = idCount + 1
    /\ pc' = [pc EXCEPT ![p] = "newIdRet"]
    /\ UNCHANGED <<rendered, IdGenerator, seen, logs, heap, idCountMu, debug, runtime, OnLog, OnError, sessions,
                   frame, ret, finals, issued, calls, insOverlap, origin, statusEver>>

\* return strconv.FormatInt(l.idCount, 10), with the deferred Unlock; Sess
\* puts the id into a new Session of the calling goroutine, Fatal goes on
\* with it.
NewIdRet(p) ==
    /\ pc[p] = "newIdRet"
    /\ idCountMu' = IF idCountMu = p THEN "" ELSE idCountMu
    /\ issued' = Append(issued, [id |-> FormatInt(idCount), before |-> frame[p].before,
                                 gen |-> frame[p].gen, e |-> frame[p].e,
                                 count0 |-> frame[p].count0, count |-> idCount])
    /\ sessions' = IF frame[p].then = "Sess"
                   THEN Append(sessions, [id |-> FormatInt(idCount), name |-> frame[p].name,
                                          ended |-> FALSE, owner |-> p])
                   ELSE sessions
    /\ pc' = [pc EXCEPT ![p] = IF frame[p].then = "Fatal" THEN "fatalLog" ELSE "idle"]
    /\ frame' = [frame EXCEPT ![p] =
           IF frame[p].then = "Fatal" THEN [frame[p] EXCEPT !.id = FormatInt(idCount)]
           ELSE NoFrame]
    /\ UNCHANGED <<rendered, IdGenerator, seen, logs, heap, idCount, debug, runtime, OnLog, OnError,
                   ret, finals, calls, insOverlap, origin, statusEver>>

\* Logger.IdGenerator is a public field the caller assigns.
SetIdGenerator(p, set) ==
    /\ pc[p] = "idle"
    /\ IdGenerator' = set
    /\ UNCHANGED <<rendered, seen, logs, heap, idCount, idCountMu, debug, runtime, OnLog, OnError,
                   sessions, pc, frame, ret, finals, issued, calls, insOverlap, origin,
                   statusEver>>

\* What a custom generator can return: an id and no error, or an error (its
\* text, empty for none).
GenResults == {[id |-> "a7", err |-> <<>>], [id |-> "", err |-> <<"E", "O", "F">>]}

\* Faulty variant: the error never looked at.
GenFailed_Ignored(res) == FALSE

\* err != nil
GenFailed(res) == res.err # <<>>

\* The Entry logIdGenError builds: Level and Message only, so that its
\* ThreadId is the empty string.
IdGenPrefix == <<"couldn't generate ID for logger thread: ">>
IdGenErrorEntry(err) ==
    [ZeroEntry EXCEPT !.Level = levelError, !.Message = IdGenPrefix \o err]

\* NewId of src/unnamed/part_000, up to its return of the generator's id, or
\* up to insertEntry's Load in logIdGenError, or up to the call of defaultId
\* (the counter steps of NewId above: Lock, increment, Unlock and format).
NewIdGen(p, res) ==
    /\ pc[p] = "idle"
    /\ calls.id < MaxIds
    /\ calls' = [calls EXCEPT !.id = @ + 1]
    /\ IF ~IdGenerator
       THEN /\ pc' = [pc EXCEPT ![p] = "newIdLock"]
            /\ frame' = [frame EXCEPT ![p] =
                   [NoFrame EXCEPT !.then = "NewId", !.count0 = idCount,
                                   !.before = {issued[i].id : i \in 1..Len(issued)}]]
            /\ UNCHANGED <<heap, origin, insOverlap, issued>>
       ELSE IF GenFailed(res)
       THEN /\ heap' = Append(heap, IdGenErrorEntry(res.err))
            /\ origin' = Append(origin, Origin(levelError, FALSE))
            /\ insOverlap' = (insOverlap \/ InFlight("") # {})
            /\ pc' = [pc EXCEPT ![p] = "insertStore"]
            /\ frame' = [frame EXCEPT ![p] =
                   [NoFrame EXCEPT !.then = "NewId", !.gen = "err", !.count0 = idCount,
                                   !.before = {issued[i].id : i \in 1..Len(issued)},
                                   !.e = Len(heap) + 1, !.id = "", !.ok = Loaded(""),
                                   !.loaded = IF Loaded("") THEN logs[""] ELSE EntriesVal(<<>>)]]
            /\ UNCHANGED issued
       ELSE /\ issued' = Append(issued,
                   [id |-> res.id, before |-> {issued[i].id : i \in 1..Len(issued)},
                    gen |-> "ok", e |-> 0, count0 |-> idCount, count |-> idCount])
            /\ UNCHANGED <<heap, origin, insOverlap, pc, frame>>
    /\ UNCHANGED <<rendered, IdGenerator, seen, logs, idCount, idCountMu, debug, runtime, OnLog,
                   OnError, sessions, ret, finals, statusEver>>

\* ------------------------------------------------------------------- fatal
\* Logger.Fatal: the call, up to NewId's Lock; msg is err.Error().
Fatal(p, msg) ==
    /\ pc[p] = "idle"
    /\ calls.fatal < MaxFatal
    /\ calls.id < MaxIds
    /\ calls' = [calls EXCEPT !.fatal = @ + 1, !.id = @ + 1]
    /\ pc' = [pc EXCEPT ![p] = "newIdLock"]
    /\ frame' = [frame EXCEPT ![p] =
           [NoFrame EXCEPT !.then = "Fatal", !.msg = msg, !.count0 = idCount,
                           !.before = {issued[i].id : i \in 1..Len(issued)}]]
    /\ UNCHANGED <<rendered, IdGenerator, seen, logs, heap, idCount, idCountMu, debug, runtime, OnLog,
                   OnError, sessions, ret, finals, issued, insOverlap, origin, statusEver>>

\* Fatal's l.logEntry(levelError, id, err.Error()), up to insertEntry's Load.
FatalLog(p, c) ==
    /\ pc[p] = "fatalLog"
    /\ logEntry(p, levelError, frame[p].id, frame[p].msg, c, FALSE)
    /\ UNCHANGED <<rendered, IdGenerator, seen, idCount, idCountMu, debug, runtime, OnLog, OnError,
                   sessions, finals, issued, calls, statusEver>>

\* Fatal's l.end(kindSession, id, "", "", "", 0), up to end's Load.
FatalEnd(p) ==
    /\ pc[p] = "fatalEnd"
    /\ endLoad(p, kindSession, frame[p].id,
               [ip |-> "", method |-> "", route |-> "", duration |-> 0])
    /\ UNCHANGED <<rendered, IdGenerator, seen, logs, heap, idCount, idCountMu, debug, runtime, OnLog,
                   OnError, sessions, ret, finals, issued, calls, insOverlap, origin,
                   statusEver>>

\* os.Exit(1): the process ends, and every other goroutine with it.
FatalExit(p) ==
    /\ pc[p] = "fatalExit"
    /\ pc' = [q \in Procs |-> IF q = p THEN "exited" ELSE "killed"]
    /\ UNCHANGED <<rendered, IdGenerator, seen, logs, heap, idCount, idCountMu, debug, runtime, OnLog,
                   OnError, sessions, frame, ret, finals, issued, calls, insOverlap, origin,
                   statusEver>>

\* ------------------------------------------------------------------ session
\* Faulty variant: the Session methods without their test.
SessionEnded_Never(s) == FALSE

\* The test "if s.ended" that opens every Session method.
SessionEnded(s) == sessions[s].ended

\* Faulty variant: End without its assignment.
MarkEnded_Forgets(sess) == sess

\* s.ended = true
MarkEnded(sess) == [sess EXCEPT !.ended = TRUE]

\* Session.Info, Error, Debug, InfoF, ErrorF, DebugF.  A Session has no
\* lock of its own and is used by the goroutine that made it.
SessionLog(p, s, m, msg, c) ==
    /\ pc[p] = "idle"
    /\ s \in 1..Len(sessions)
    /\ sessions[s].owner = p
    /\ calls.log < MaxLogCalls
    /\ calls' = [calls EXCEPT !.log = @ + 1]
    /\ IF SessionEnded(s)
       THEN /\ heap' = Append(heap, ZeroEntry)
            /\ origin' = Append(origin, Origin(MethodLevel(m), sessions[s].ended))
            /\ ret' = [ret EXCEPT ![p] = Len(heap) + 1]
            /\ UNCHANGED <<logs, pc, frame, insOverlap>>
       ELSE logEntry(p, MethodLevel(m), sessions[s].id, msg, c, sessions[s].ended)
    /\ UNCHANGED <<rendered, IdGenerator, seen, idCount, idCountMu, debug, runtime, OnLog, OnError, sessions,
                   finals, issued, statusEver>>

\* Faulty variant: the loop comparing with the wrong level.
SeenErrorIn_WrongLevel(ee) == \E i \in 1..Len(ee) : heap[ee[i]].Level = "Info"

\* SeenError's loop over the loaded slice.
SeenErrorIn(ee) == \E i \in 1..Len(ee) : heap[ee[i]].Level = "Error"

\* Session.SeenError: one Load of the Session's id, the type assertion and
\* the loop.  It reads s.id and s.logger only, not s.ended.
SeenError(p, s) ==
    /\ pc[p] = "idle"
    /\ s \in 1..Len(sessions)
    /\ sessions[s].owner = p
    /\ calls.seen < MaxSeen
    /\ calls' = [calls EXCEPT !.seen = @ + 1]
    /\ LET id == sessions[s].id
           panics == Loaded(id) /\ logs[id].type # "entries"
       IN  seen' = Append(seen,
               [sess |-> s, id |-> id, panicked |-> panics,
                result |-> IF Loaded(id) /\ ~panics THEN SeenErrorIn(logs[id].ee) ELSE FALSE,
                buffered |-> IF Loaded(id) /\ ~panics THEN logs[id].ee ELSE <<>>,
                at |-> Len(finals)])
    /\ UNCHANGED <<rendered, IdGenerator, logs, heap, idCount, idCountMu, debug, runtime, OnLog, OnError, sessions,
                   pc, frame, ret, finals, issued, insOverlap, origin, statusEver>>

\* Session.End
SessionEnd(p, s) ==
    /\ pc[p] = "idle"
    /\ s \in 1..Len(sessions)
    /\ sessions[s].owner = p
    /\ calls.sessEnd < MaxSessEnds
    /\ calls' = [calls EXCEPT !.sessEnd = @ + 1]
    /\ IF SessionEnded(s)
       THEN UNCHANGED <<sessions, pc, frame>>
       ELSE /\ sessions' = [sessions EXCEPT ![s] = MarkEnded(sessions[s])]
            /\ endLoad(p, kindSession, sessions[s].id,
                       [ip |-> "", method |-> "", route |-> sessions[s].name, duration |-> 0])
    /\ UNCHANGED <<rendered, IdGenerator, seen, logs, heap, idCount, idCountMu, debug, runtime, OnLog, OnError,
                   ret, finals, issued, insOverlap, origin, statusEver>>

\* --------------------------------------------------------------- rendering
\* A text is the sequence of its pieces: "\n" is a piece of its own, a
\* message contributes its bytes, and any other string (a level, a path, a
\* number) is one piece; the empty string contributes nothing.  The box
\* drawing runes U+2502, U+251C U+2500 and U+2514 U+2500 are written "|",
\* "|-" and "+-".
Renderers == {"FormatTerse", "FormatPretty"}

Tok(str) == IF str = "" THEN <<>> ELSE <<str>>

RECURSIVE Repeat(_, _)
Repeat(str, n) == IF n <= 0 THEN "" ELSE str \o Repeat(str, n - 1)

\* pad
Pad(str, length) ==
    IF length - Len(str) <= 0 THEN str
    ELSE Repeat("_", length - Len(str)) \o str

\* log.Date.Format(time.Kitchen), for the time the record was made at.
KitchenTimes == {"3:04PM"}

\* fmt.Sprintf("%dms", log.Duration/1000000)
DurationMs(log) == FormatInt(log.Duration \div 1000000) \o "ms"

\* The text before the entries.
TerseHeader(log, date) ==
    IF log.Kind = kindSession
    THEN <<date, " Session: ">> \o Tok(log.Route) \o <<"\n">>
    ELSE IF log.Kind = kindRequest
    THEN <<date, " ", FormatInt(log.Status), " ", DurationMs(log), " ">>
         \o Tok(log.Route) \o <<"\n">>
    ELSE <<>>

PrettyHeader(log, date) ==
    IF log.Kind = kindSession
    THEN <<"\n", date, " Session: ">> \o Tok(log.Route) \o <<"\n">>
    ELSE IF log.Kind = kindRequest
    THEN <<"\n", date, " ", FormatInt(log.Status), " ", Pad(DurationMs(log), 10), " ">>
         \o Tok(log.Method) \o <<" ">> \o Tok(log.Route) \o <<"\n">>
    ELSE <<>>

\* FormatTerse's kvs: fmt.Sprintf("%q=%q", kv.Key, kv.Val) for each pair.
RECURSIVE TerseKvs(_)
TerseKvs(kvs) ==
    IF kvs = <<>> THEN <<>>
    ELSE <<"\"" \o Head(kvs).Key \o "\"", "=", "\"" \o Head(kvs).Val \o "\"">>
         \o TerseKvs(Tail(kvs))

\* FormatTerse's text for one entry.
TerseEntry(e) ==
    <<"[" \o e.Level \o "] ">> \o e.Message \o <<" ">> \o TerseKvs(e.KeyVals) \o <<"\n">>

\* FormatPretty's kvs: one line for each pair.
RECURSIVE PrettyKvs(_, _)
PrettyKvs(fStart, kvs) ==
    IF kvs = <<>> THEN <<>>
    ELSE <<" " \o fStart \o "    ", Head(kvs).Key, " = ">> \o Tok(Head(kvs).Val) \o <<"\n">>
         \o PrettyKvs(fStart, Tail(kvs))

\* strings.SplitAfterN(e.File, "/storydevs", 2), last part, for the paths
\* of this model: none but StorydevsFile holds the separator.
StorydevsFile == "/home/storydevs/app/h.go"
StorydevsCaller ==
    [ok |-> TRUE, function |-> <<"storydevs", "app.Handler">>, file |-> StorydevsFile, line |-> 12]
LastFilePart(file) == IF file = StorydevsFile THEN "/app/h.go" ELSE file

\* Faulty variant: the call-site line without the test for an empty path.
RuntimeInfo_Unconditional(fStart, e) ==
    <<" " \o fStart \o " ">> \o Tok(LastFilePart(e.File))
    \o <<":", FormatInt(e.Line), " (">> \o Tok(e.Function) \o <<")", "\n">>

\* FormatPretty's runtimeInfo.
RuntimeInfo(fStart, e) ==
    IF LastFilePart(e.File) # ""
    THEN <<" " \o fStart \o " ">> \o Tok(LastFilePart(e.File))
         \o <<":", FormatInt(e.Line), " (">> \o Tok(e.Function) \o <<")", "\n">>
    ELSE <<>>

\* strings.Split(e.Message, "\n"), every part but the first prefixed, joined
\* again with "\n".
RECURSIVE PrettyMessage(_, _)
PrettyMessage(fStart, msg) ==
    IF msg = <<>> THEN <<>>
    ELSE IF Head(msg) = "\n"
    THEN <<"\n", " " \o fStart \o "    ">> \o PrettyMessage(fStart, Tail(msg))
    ELSE <<Head(msg)>> \o PrettyMessage(fStart, Tail(msg))

\* FormatPretty's text for the entry at index i of n.
PrettyEntry(e, i, n) ==
    LET lnStart == IF i = n THEN "+-" ELSE "|-"
        fStart == IF i = n THEN "  " ELSE "| "
    IN  <<" |", "\n", " " \o lnStart \o " [" \o e.Level \o "] ">>
        \o PrettyMessage(fStart, e.Message) \o <<"\n">>
        \o PrettyKvs(fStart, e.KeyVals) \o RuntimeInfo(fStart, e)

\* What each pass of the renderer's loop over log.Entries appends.
EntryTexts(fmt, log) ==
    [i \in 1..Len(log.Entries) |->
        IF fmt = "FormatTerse" THEN TerseEntry(heap[log.Entries[i]])
        ELSE PrettyEntry(heap[log.Entries[i]], i, Len(log.Entries))]

RECURSIVE Concat(_)
Concat(texts) == IF texts = <<>> THEN <<>> ELSE Head(texts) \o Concat(Tail(texts))

\* Log.FormatTerse, Log.FormatPretty on the record an observer was handed in
\* invocation j of finalization i.  The receiver is a copy of the record and
\* the entries are only read.
Format(p, fmt, i, j, date) ==
    /\ pc[p] = "idle"
    /\ i \in 1..Len(finals)
    /\ j \in 1..Len(finals[i].invoked)
    /\ LET log == finals[i].invoked[j].log
           header == IF fmt = "FormatTerse" THEN TerseHeader(log, date)
                     ELSE PrettyHeader(log, date)
       IN  rendered' = [fmt |-> fmt, i |-> i, j |-> j, header |-> header,
                        parts |-> EntryTexts(fmt, log),
                        out |-> header \o Concat(EntryTexts(fmt, log))]
    /\ UNCHANGED <<IdGenerator, seen, logs, heap, idCount, idCountMu, debug, runtime, OnLog,
                   OnError, sessions, pc, frame, ret, finals, issued, calls, insOverlap,
                   origin, statusEver>>

\* ----------------------------------------------------------- specifications
\* Request handlers: the goroutines of Procs log to and finalize one request
\* id concurrently.
Next ==
    \/ \E p \in Procs, m \in LogMethods, msg \in Msgs : LoggerLog(p, m, "r", msg, SomeCaller)
    \/ \E p \in Procs : InsertStore(p)
    \/ \E p \in Procs, meta \in ReqMetas : End(p, "r", meta)
    \/ \E p \in Procs : EndDelete(p)
    \/ \E p \in Procs : EndFinish(p)

Spec == Init /\ [][Next]_vars

\* One goroutine logs at every level to one request id, switches debug
\* logging and finalizes.
NextSeq ==
    \/ \E b \in BOOLEAN : SetDebug("p1", b)
    \/ \E m \in LogMethods, msg \in Msgs : LoggerLog("p1", m, "r", msg, SomeCaller)
    \/ InsertStore("p1")
    \/ \E meta \in ReqMetas : End("p1", "r", meta)
    \/ EndDelete("p1")
    \/ EndFinish("p1")

SpecSeq == Init /\ [][NextSeq]_vars

\* One goroutine sets statuses, logs to and finalizes a request id and the
\* request id that spells its status key.
NextStatus ==
    \/ \E m \in StatusMethods, t \in ReqIds, code \in StatusCodes : SetStatus("p1", m, t, code)
    \/ \E m \in {"Info", "Error"}, t \in ReqIds, msg \in Msgs :
           LoggerLog("p1", m, t, msg, SomeCaller)
    \/ InsertStore("p1")
    \/ \E t \in ReqIds, meta \in ReqMetas : End("p1", t, meta)
    \/ EndDelete("p1")
    \/ EndFinish("p1")

SpecStatus == Init /\ [][NextStatus]_vars

\* One goroutine makes a Session, logs through it, annotates what the calls
\* return and ends it, any number of times.
NextSession ==
    \/ \E name \in SessNames : Sess("p1", name)
    \/ NewIdLock("p1")
    \/ NewIdInc("p1")
    \/ NewIdRet("p1")
    \/ \E s \in SessionSlots, m \in LogMethods, msg \in Msgs :
           SessionLog("p1", s, m, msg, SomeCaller)
    \/ InsertStore("p1")
    \/ \E k \in DataKeys, v \in DataVals : Data("p1", k, v)
    \/ \E s \in SessionSlots : SessionEnd("p1", s)
    \/ EndDelete("p1")
    \/ EndFinish("p1")

SpecSession == Init /\ [][NextSession]_vars

\* The goroutines of Procs draw ids concurrently, through NewId and Sess.
NextIds ==
    \/ \E p \in Procs : NewId(p)
    \/ \E p \in Procs, name \in SessNames : Sess(p, name)
    \/ \E p \in Procs : NewIdLock(p)
    \/ \E p \in Procs : NewIdInc(p)
    \/ \E p \in Procs : NewIdRet(p)

SpecIds == Init /\ [][NextIds]_vars

\* The thread id of the first Session, which a caller may also hand to the
\* request methods.
SharedIds == {"1"}

\* One goroutine uses one thread id both through a Session and through the
\* request methods, so that the id is finalized more than once and as both
\* kinds.
NextTwice ==
    \/ \E name \in SessNames : Sess("p1", name)
    \/ NewIdLock("p1")
    \/ NewIdInc("p1")
    \/ NewIdRet("p1")
    \/ \E s \in SessionSlots, m \in {"Info", "Error"}, msg \in Msgs :
           SessionLog("p1", s, m, msg, SomeCaller)
    \/ InsertStore("p1")
    \/ \E m \in StatusMethods, t \in SharedIds, code \in StatusCodes : SetStatus("p1", m, t, code)
    \/ \E t \in SharedIds, meta \in ReqMetas : End("p1", t, meta)
    \/ \E s \in SessionSlots : SessionEnd("p1", s)
    \/ EndDelete("p1")
    \/ EndFinish("p1")

SpecTwice == Init /\ [][NextTwice]_vars

\* One goroutine makes a Session, logs through it, asks it whether it has
\* seen an error and ends it, in any order.
NextSeen ==
    \/ \E name \in SessNames : Sess("p1", name)
    \/ NewIdLock("p1")
    \/ NewIdInc("p1")
    \/ NewIdRet("p1")
    \/ \E s \in SessionSlots, m \in LogMethods, msg \in Msgs :
           SessionLog("p1", s, m, msg, SomeCaller)
    \/ InsertStore("p1")
    \/ \E s \in SessionSlots : SeenError("p1", s)
    \/ \E s \in SessionSlots : SessionEnd("p1", s)
    \/ EndDelete("p1")
    \/ EndFinish("p1")

SpecSeen == Init /\ [][NextSeen]_vars

\* One goroutine draws ids with and without a custom generator, which
\* succeeds or fails.
NextGen ==
    \/ \E b \in BOOLEAN : SetIdGenerator("p1", b)
    \/ \E res \in GenResults : NewIdGen("p1", res)
    \/ InsertStore("p1")
    \/ NewIdLock("p1")
    \/ NewIdInc("p1")
    \/ NewIdRet("p1")

SpecGen == Init /\ [][NextGen]_vars

\* The goroutines of Procs log to a request and call Fatal, concurrently.
NextFatal ==
    \/ \E p \in Procs, msg \in Msgs : Fatal(p, msg)
    \/ \E p \in Procs : NewIdLock(p)
    \/ \E p \in Procs : NewIdInc(p)
    \/ \E p \in Procs : NewIdRet(p)
    \/ \E p \in Procs : FatalLog(p, SomeCaller)
    \/ \E p \in Procs : InsertStore(p)
    \/ \E p \in Procs : FatalEnd(p)
    \/ \E p \in Procs : EndDelete(p)
    \/ \E p \in Procs : EndFinish(p)
    \/ \E p \in Procs : FatalExit(p)
    \/ \E p \in Procs, msg \in Msgs : LoggerLog(p, "Error", "r", msg, SomeCaller)

SpecFatal == Init /\ [][NextFatal]_vars

\* One goroutine logs messages of every shape at every level to one request
\* id, with debug logging on or off.
NextNorm ==
    \/ \E b \in BOOLEAN : SetDebug("p1", b)
    \/ \E m \in {"Info", "Error", "Debug"}, msg \in NormMsgs :
           LoggerLog("p1", m, "r", msg, SomeCaller)
    \/ InsertStore("p1")

SpecNorm == Init /\ [][NextNorm]_vars

\* One goroutine switches debug logging and call-site capture between its
\* logging, status-setting and finalizing calls on one request id.
NextToggle ==
    \/ \E b \in BOOLEAN : SetDebug("p1", b)
    \/ \E b \in BOOLEAN : SetRuntime("p1", b)
    \/ LoggerLog("p1", "Debug", "r", <<"o", "k">>, SomeCaller)
    \/ InsertStore("p1")
    \/ \E m \in {"NotFound"}, code \in StatusCodes : SetStatus("p1", m, "r", code)
    \/ \E meta \in ReqMetas : End("p1", "r", meta)
    \/ EndDelete("p1")
    \/ EndFinish("p1")

SpecToggle == Init /\ [][NextToggle]_vars

\* One goroutine logs with and without call-site capture, annotates, ends
\* the request, and renders the records the observers were handed by the
\* last end.
NextFormat ==
    \/ \E b \in BOOLEAN : SetRuntime("p1", b)
    \/ LoggerLog("p1", "Error", "r", <<"a", "\n", "b">>, StorydevsCaller)
    \/ InsertStore("p1")
    \/ \E k \in DataKeys, v \in DataVals : Data("p1", k, v)
    \/ \E meta \in ReqMetas : End("p1", "r", meta)
    \/ EndDelete("p1")
    \/ EndFinish("p1")
    \/ \E fmt \in Renderers, j \in 1..2, date \in KitchenTimes :
           Format("p1", fmt, Len(finals), j, date)

SpecFormat == Init /\ [][NextFormat]_vars

\* One goroutine logs to a request id and annotates the entries it gets
\* back, one pair at a time and from KeyValuers.  A goroutine inside
\* DataMulti keeps running.
NextMulti ==
    \/ LoggerLog("p1", "Info", "r", <<"o", "k">>, SomeCaller)
    \/ InsertStore("p1")
    \/ \E k \in DataKeys, v \in DataVals : Data("p1", k, v)
    \/ \E kvs \in KeyValuers : DataMulti("p1", kvs)
    \/ MultiLoop("p1")

\* Each goroutine logs to, sets the status of and finalizes a request id of
\* its own, in every interleaving; the second one's id spells the status key
\* of the first's.
OwnId(p) == IF p = "p1" THEN "r" ELSE "r_status"

NextIso ==
    \/ \E p \in Procs, m \in {"Info", "Error"} :
           LoggerLog(p, m, OwnId(p), <<"o", "k">>, SomeCaller)
    \/ \E p \in Procs : InsertStore(p)
    \/ \E p \in Procs, code \in StatusCodes : SetStatus(p, "NotFound", OwnId(p), code)
    \/ \E p \in Procs, meta \in ReqMetas : End(p, OwnId(p), meta)
    \/ \E p \in Procs : EndDelete(p)
    \/ \E p \in Procs : EndFinish(p)

SpecIso == Init /\ [][NextIso]_vars

SpecMulti == Init /\ [][NextMulti]_vars /\ WF_vars(MultiLoop("p1"))

\* ------------------------------------------------------------------ claims
\* The entry pointers buffered under a thread id, and in the whole map.
Buffered(t) == IF Loaded(t) /\ logs[t].type = "entries" THEN Range(logs[t].ee) ELSE {}
StoredEntries == UNION {Buffered(t) : t \in DOMAIN logs}

\* The entry pointers some finished or running end has drained or handed to
\* an observer.
DrainedBy(t) ==
    UNION ({Range(finals[i].drained) : i \in {j \in 1..Len(finals) : finals[j].id = t}}
           \cup {Range(frame[q].ee) : q \in Ending(t)})
HandedOut(f) == UNION {Range(f.invoked[j].log.Entries) : j \in 1..Len(f.invoked)}
Dispatched == UNION {HandedOut(finals[i]) : i \in 1..Len(finals)}

FinalsOf(t) == {i \in 1..Len(finals) : finals[i].id = t}

AllIdle == \A p \in Procs : pc[p] = "idle"

\* C1: an end that starts when every insert on its thread id has returned
\* (and no end ran for the id before) drains exactly the entries inserted,
\* each once.
C1_DrainIsWhatWasInserted ==
    \A i \in 1..Len(finals) :
        (finals[i].quiet /\ finals[i].first /\ finals[i].outcome = "return")
            => /\ Range(finals[i].drained) = finals[i].pre
               /\ Len(finals[i].drained) = Cardinality(finals[i].pre)

\* C2: the record OnLog receives holds the whole drained sequence, in order,
\* whether or not OnError was invoked too.
C2_OnLogGetsFullRecord ==
    \A i \in 1..Len(finals) : \A j \in 1..Len(finals[i].invoked) :
        finals[i].invoked[j].obs = "OnLog"
            => finals[i].invoked[j].log.Entries = finals[i].drained

RECURSIVE OnlyErrors(_)
OnlyErrors(ee) ==
    IF ee = <<>> THEN <<>>
    ELSE IF heap[Head(ee)].Level = "Error" THEN <<Head(ee)>> \o OnlyErrors(Tail(ee))
    ELSE OnlyErrors(Tail(ee))

OnErrorCalls(f) == {j \in 1..Len(f.invoked) : f.invoked[j].obs = "OnError"}

\* C3: an end that reaches its observers invokes OnError if and only if it
\* is registered and an Error-level entry was drained, once, with exactly the
\* drained Error-level entries in their order and no Info or Debug entry.
C3_OnErrorGetsExactlyErrors ==
    \A i \in 1..Len(finals) :
        finals[i].outcome = "return"
            => /\ Cardinality(OnErrorCalls(finals[i]))
                    = (IF OnError /\ \E e \in Range(finals[i].drained) : heap[e].Level = "Error"
                       THEN 1 ELSE 0)
               /\ \A j \in OnErrorCalls(finals[i]) :
                    /\ finals[i].invoked[j].log.Entries = OnlyErrors(finals[i].drained)
                    /\ \A e \in Range(finals[i].invoked[j].log.Entries) :
                           heap[e].Level \notin {"Info", "Debug"}

\* An end drained entries of all three levels and invoked OnError.
C3_Witness ==
    \E i \in 1..Len(finals) :
        /\ OnErrorCalls(finals[i]) # {}
        /\ {heap[e].Level : e \in Range(finals[i].drained)} = {"Info", "Error", "Debug"}

\* C4: with one insert racing one end on a thread id (no two inserts ever in
\* flight together), once both are over every entry whose insert returned was
\* drained by an end or is still buffered under the id; and an entry whose
\* insert returned before the first end was called is drained by it.
C4_RacingInsertNotLost ==
    ~insOverlap =>
        /\ \A t \in ReqIds :
               Ending(t) = {} => ReturnedOn(t) \subseteq (Buffered(t) \cup DrainedBy(t))
        /\ \A i \in 1..Len(finals) :
               (finals[i].first /\ finals[i].outcome = "return")
                   => finals[i].pre \subseteq Range(finals[i].drained)

\* C5: the end of a session-kind thread that drained nothing invokes no
\* observer.
C5_EmptySessionIsSilent ==
    \A i \in 1..Len(finals) :
        (finals[i].kind = "session" /\ finals[i].drained = <<>>) => finals[i].invoked = <<>>

\* A Session with nothing buffered was ended while both observers were set.
C5_Witness ==
    /\ OnLog /\ OnError
    /\ \E i \in 1..Len(finals) :
           finals[i].kind = "session" /\ finals[i].drained = <<>> /\ finals[i].outcome = "return"

\* C6: Logger.End on a request id with nothing buffered and no status ever
\* set invokes OnLog, when registered, once with Status 200 and no entries,
\* and invokes nothing else.
C6_EmptyRequestGetsDefaultStatus ==
    \A i \in 1..Len(finals) :
        (finals[i].kind = "request" /\ ~finals[i].found /\ ~finals[i].statusEver /\ OnLog)
            => /\ Len(finals[i].invoked) = 1
               /\ finals[i].invoked[1].obs = "OnLog"
               /\ finals[i].invoked[1].log.Status = 200
               /\ finals[i].invoked[1].log.Entries = <<>>

EndRuns(t) == Cardinality(FinalsOf(t)) + Cardinality(Ending(t))

C7_Once ==
    \A s \in 1..Len(sessions) :
        /\ EndRuns(sessions[s].id) = (IF sessions[s].ended THEN 1 ELSE 0)
        /\ Cardinality({i \in FinalsOf(sessions[s].id) : finals[i].invoked # <<>>}) <= 1

C7_LaterEndIsNoOp ==
    calls'.sessEnd = calls.sessEnd + 1 =>
        \A s \in 1..Len(sessions) :
            sessions[s].ended =>
                /\ sessions'[s] = sessions[s]
                /\ logs' = logs
                /\ finals' = finals
                /\ EndRuns(sessions[s].id)' = EndRuns(sessions[s].id)

\* C7: end runs for a Session exactly when it is marked ended, and once: the
\* first Session.End marks and finalizes, and a Session.End on an ended
\* Session leaves its flag, the store and the observers alone.
C7_SessionEndIdempotent == []C7_Once /\ [][C7_LaterEndIsNoOp]_vars

\* Session.End was called again after the first one dispatched the Session's
\* entries.
C7_Witness ==
    /\ AllIdle
    /\ calls.sessEnd >= 2
    /\ \E s \in 1..Len(sessions) :
           /\ sessions[s].ended
           /\ \E i \in FinalsOf(sessions[s].id) : finals[i].invoked # <<>>

\* An entry that is the zero value but for the annotations Data added.
IsPlaceholder(e) ==
    /\ e.ThreadId = "" /\ e.Level = "" /\ e.Function = "" /\ e.File = ""
    /\ e.Message = <<>> /\ e.Line = 0

NeverInserted(e) == e \notin (StoredEntries \cup Inserting \cup Dispatched)

C8_NothingStored ==
    /\ \A e \in 1..Len(heap) : origin[e].ended => IsPlaceholder(heap[e]) /\ NeverInserted(e)
    /\ \A s \in 1..Len(sessions) :
           (sessions[s].ended /\ Ending(sessions[s].id) = {}) => ~Loaded(sessions[s].id)

C8_DataOnPlaceholder ==
    calls'.data = calls.data + 1 =>
        \A e \in 1..Len(heap) :
            (heap'[e] # heap[e] /\ origin[e].ended)
                => /\ logs' = logs
                   /\ Len(heap'[e].KeyVals) = Len(heap[e].KeyVals) + 1
                   /\ \A x \in StoredEntries : heap'[x] = heap[x]

\* C8: a logging call on an ended Session returns a placeholder that is never
\* inserted, the store holds nothing under the id of a Session whose End is
\* over, and Data on such a placeholder changes neither the map nor any
\* buffered entry.
C8_LoggingAfterEnd == []C8_NothingStored /\ [][C8_DataOnPlaceholder]_vars

\* A logging call was made on an ended Session and Data was called on what
\* it returned.
C8_Witness ==
    \E e \in 1..Len(heap) :
        /\ origin[e].ended
        /\ heap[e].KeyVals # <<>>
        /\ \E p \in Procs : ret[p] = e

\* C9: a Debug-level call made while debug logging is disabled allocates a
\* placeholder and inserts nothing, so that every Debug-level entry buffered
\* or handed to an observer was logged while debug logging was enabled.
C9_DisabledDebugNeverInserted ==
    /\ \A e \in 1..Len(heap) :
           (origin[e].level = "Debug" /\ ~origin[e].debug)
               => IsPlaceholder(heap[e]) /\ NeverInserted(e)
    /\ \A e \in StoredEntries \cup Dispatched :
           heap[e].Level = "Debug" => origin[e].debug

\* A Debug call was suppressed between two calls whose entries a later end
\* handed to an observer.
C9_Witness ==
    \E d \in 1..Len(heap) :
        /\ origin[d].level = "Debug" /\ ~origin[d].debug
        /\ \E i \in 1..Len(finals) :
               /\ finals[i].invoked # <<>>
               /\ \E a, b \in Range(finals[i].drained) : a < d /\ d < b

\* The decimal strings of 1, 2, 3, ...
Decimals == <<"1", "2", "3", "4", "5", "6", "7", "8", "9", "10", "11", "12">>
ValueOf(id) == CHOOSE n \in 1..Len(Decimals) : Decimals[n] = id

\* C10: the ids NewId returned are pairwise different, are the decimal
\* strings of 1..n, and each is greater than every id returned before its
\* call started.
C10_IdsUniqueAndIncreasing ==
    /\ \A i, j \in 1..Len(issued) : i # j => issued[i].id # issued[j].id
    /\ {issued[i].id : i \in 1..Len(issued)} = {Decimals[n] : n \in 1..Len(issued)}
    /\ \A i \in 1..Len(issued) : \A b \in issued[i].before :
           ValueOf(b) < ValueOf(issued[i].id)

\* Two calls overlapped (neither saw the other's id returned) and a third
\* started after one of them had returned.
C10_Witness ==
    /\ \E i, j \in 1..Len(issued) : i # j /\ issued[i].before = issued[j].before
    /\ \E i \in 1..Len(issued) : issued[i].before # {}

\* The ends that finished before finals[i] on its thread id, and whether
\* finals[i] is a repeated finalization: one finished before it and no insert
\* on the id returned in between.
EarlierFinals(i) == {j \in 1..(i - 1) : finals[j].id = finals[i].id}
Repeated(i) == \E j \in EarlierFinals(i) : finals[j].pre = finals[i].pre

\* What a repeated finalization does, but for the Status of a request's
\* record: nothing drained, no observer for a session, and for a request
\* OnLog alone (when registered) with no entries and the given Status.
RepeatedFinal(i, status) ==
    /\ finals[i].drained = <<>>
    /\ finals[i].kind = "session" => finals[i].invoked = <<>>
    /\ finals[i].kind = "request" =>
           /\ Len(finals[i].invoked) = (IF OnLog THEN 1 ELSE 0)
           /\ \A k \in 1..Len(finals[i].invoked) :
                  /\ finals[i].invoked[k].obs = "OnLog"
                  /\ finals[i].invoked[k].log.Entries = <<>>
                  /\ finals[i].invoked[k].log.Status = status

LastStatusOr200(i) == IF finals[i].statusEver THEN finals[i].lastStatus ELSE 200

\* C11 (as stated): a repeated finalization drains nothing, is silent for a
\* session, and for a request hands OnLog a record with no entries and
\* Status 200, whatever statuses were set before.
C11_SecondFinalizationDefaultStatus ==
    \A i \in 1..Len(finals) : Repeated(i) => RepeatedFinal(i, 200)

\* C11 (amended): the same, but the request's record carries the code of
\* the last status-setting call for the id, which end does not remove, and
\* 200 only if there was none.
C11_SecondFinalizationKeepsStatus ==
    \A i \in 1..Len(finals) : Repeated(i) => RepeatedFinal(i, LastStatusOr200(i))

\* After a status was set and an entry logged, the id was finalized as a
\* request, then again as a session and again as a request with OnLog set.
C11_Witness ==
    \E i, j \in 1..Len(finals) :
        /\ Repeated(i) /\ finals[i].kind = "request" /\ finals[i].statusEver
        /\ finals[i].invoked # <<>>
        /\ \E k \in EarlierFinals(i) : finals[k].drained # <<>>
        /\ Repeated(j) /\ finals[j].kind = "session"

\* The entry sequence buffered under a thread id, and the status the side
\* table holds for a request id (0: none).
EntrySeq(t) == IF Loaded(t) /\ logs[t].type = "entries" THEN logs[t].ee ELSE <<>>
StoredStatus(r) ==
    IF Loaded(StatusKey(r)) /\ logs[StatusKey(r)].type = "int" THEN logs[StatusKey(r)].code ELSE 0

\* Every end returns, and a request's record carries the code last set for
\* its id, or 200.
C12_StatusReadIsLastSet ==
    \A i \in 1..Len(finals) :
        /\ finals[i].outcome = "return"
        /\ \A k \in 1..Len(finals[i].invoked) :
               finals[i].kind = "request" => finals[i].invoked[k].log.Status = LastStatusOr200(i)

\* A status-setting call leaves every thread id's entry sequence as it was.
C12_SetStatusLeavesEntries ==
    calls'.status = calls.status + 1 => \A t \in ReqIds : EntrySeq(t)' = EntrySeq(t)

\* Every other step leaves every request id's status as it was.
C12_EntriesLeaveStatus ==
    calls'.status = calls.status => \A r \in ReqIds : StoredStatus(r)' = StoredStatus(r)

\* C12: statuses and entry sequences live in independent key spaces: setting
\* a status changes no thread id's entry sequence and is never read as one,
\* logging and finalizing change no request id's status, and the status read
\* at finalization is the last one set for the request id, or 200.
C12_IndependentKeySpaces ==
    []C12_StatusReadIsLastSet /\ [][C12_SetStatusLeavesEntries /\ C12_EntriesLeaveStatus]_vars

\* Each SeenError call returned (did not panic), and returned true exactly
\* when an entry buffered under the Session's id at the call was at Error
\* level.
C13_Exact ==
    \A k \in 1..Len(seen) :
        /\ ~seen[k].panicked
        /\ seen[k].result = (\E e \in Range(seen[k].buffered) : heap[e].Level = "Error")

IsPrefix(a, b) == Len(a) <= Len(b) /\ SubSeq(b, 1, Len(a)) = a

\* The end of the Session's id that follows a SeenError call drains all that
\* was buffered at the call, in order and before anything logged later, and
\* hands it to OnLog (when OnError did not fire first).
C13_EndStillDrains ==
    \A k \in 1..Len(seen) : \A i \in FinalsOf(seen[k].id) :
        (i = seen[k].at + 1) =>
            /\ IsPrefix(seen[k].buffered, finals[i].drained)
            /\ (OnLog /\ OnErrorCalls(finals[i]) = {} /\ seen[k].buffered # <<>>)
                   => \E j \in 1..Len(finals[i].invoked) :
                          IsPrefix(seen[k].buffered, finals[i].invoked[j].log.Entries)

\* A SeenError call changes nothing but its own result.
C13_NonDestructive ==
    calls'.seen = calls.seen + 1 =>
        /\ logs' = logs /\ heap' = heap /\ sessions' = sessions /\ finals' = finals
        /\ pc' = pc /\ ret' = ret

GenErrRunning == {q \in Procs : pc[q] # "idle" /\ frame[q].gen = "err"}
GenErrIssued == {i \in 1..Len(issued) : issued[i].gen = "err"}

\* C14: a NewId call whose generator failed returns the decimal of the
\* counter it advanced by one, and has inserted exactly one Error-level
\* entry carrying the error's text under a thread id that is not the id it
\* returned; a call whose generator succeeded returns the generator's id,
\* leaves the counter alone and allocates nothing.
C14_IdGeneratorFallback ==
    /\ \A i \in 1..Len(issued) :
           /\ issued[i].gen = "err" =>
                  /\ issued[i].count = issued[i].count0 + 1
                  /\ issued[i].id = Decimals[issued[i].count]
                  /\ issued[i].e \in 1..Len(heap)
                  /\ heap[issued[i].e].Level = "Error"
                  /\ heap[issued[i].e].ThreadId # issued[i].id
                  /\ \E res \in GenResults :
                         /\ res.err # <<>>
                         /\ IsPrefix(IdGenPrefix, heap[issued[i].e].Message)
                         /\ heap[issued[i].e].Message = IdGenPrefix \o res.err
                  /\ issued[i].e \in Buffered(heap[issued[i].e].ThreadId)
                  /\ \A j \in GenErrIssued : j # i => issued[j].e # issued[i].e
           /\ issued[i].gen = "ok" =>
                  /\ issued[i].id \in {res.id : res \in {x \in GenResults : x.err = <<>>}}
                  /\ issued[i].count = issued[i].count0
                  /\ issued[i].e = 0
    /\ Len(heap) = Cardinality(GenErrIssued) + Cardinality(GenErrRunning)
    /\ AllIdle => idCount = Cardinality({i \in 1..Len(issued) : issued[i].gen # "ok"})

\* NewId was called with a generator that succeeded, with one that failed
\* twice, the second time after the counter had advanced.
C14_Witness ==
    /\ \E i \in 1..Len(issued) : issued[i].gen = "ok"
    /\ \E i, j \in GenErrIssued : i < j /\ Cardinality(Buffered("")) = 2

\* The goroutines inside Fatal, the entry of a Fatal call, and the ends that
\* handed an entry to every registered observer.
InFatal == {p \in Procs : frame[p].then = "Fatal"}
FlushedBy(e) ==
    {i \in 1..Len(finals) :
        /\ finals[i].kind = "session" /\ finals[i].id = heap[e].ThreadId
        /\ e \in Range(finals[i].drained)
        /\ OnLog => \E j \in 1..Len(finals[i].invoked) :
               finals[i].invoked[j].obs = "OnLog" /\ e \in Range(finals[i].invoked[j].log.Entries)
        /\ OnError => \E j \in 1..Len(finals[i].invoked) :
               finals[i].invoked[j].obs = "OnError" /\ e \in Range(finals[i].invoked[j].log.Entries)}

\* C15: when Fatal calls end its Error-level entry with the error's text is
\* buffered under the fresh id, and when Fatal calls os.Exit, and at the exit
\* it makes, the entry is no longer buffered and an end of the one-off
\* session has handed it to every registered observer.
C15_FatalFlushesBeforeExit ==
    \A p \in InFatal :
        /\ pc[p] = "fatalEnd" =>
               /\ frame[p].e \in Buffered(frame[p].id)
               /\ heap[frame[p].e].Level = "Error"
               /\ heap[frame[p].e].ThreadId = frame[p].id
               /\ IsPrefix(Tail(frame[p].msg), Tail(heap[frame[p].e].Message))
               /\ FlushedBy(frame[p].e) = {}
        /\ pc[p] \in {"fatalExit", "exited"} =>
               /\ frame[p].e \in 1..Len(heap)
               /\ frame[p].e \notin StoredEntries
               /\ FlushedBy(frame[p].e) # {}

\* A Fatal call exited the process with both observers registered, while
\* the other goroutine was inside its own Fatal call.
C15_Witness ==
    /\ OnLog /\ OnError
    /\ \E p, q \in InFatal : pc[p] = "exited" /\ pc[q] = "killed"

\* The bytes of the first character of a non-empty message: a well-formed
\* multi-byte sequence is one character, any other byte stands for itself.
FirstCharLen(m) ==
    IF IsASCII(m[1]) THEN 1
    ELSE IF m[1] = "C3" /\ Len(m) >= 2 /\ m[2] \in ContinuationBytes THEN 2
    ELSE IF Len(m) >= 3 /\ SubSeq(m, 1, 3) = RuneErrorBytes THEN 3
    ELSE 1

UpperChar(ch) ==
    IF Len(ch) = 1 THEN <<ToUpperRune(ch[1])>>
    ELSE IF ch = <<"C3", "A9">> THEN <<"C3", "89">>
    ELSE ch

\* The input with a period appended if and only if it does not end with
\* one, and with its first character upper-cased.
Normalised(msg) ==
    LET m1 == IF Len(msg) > 0 /\ msg[Len(msg)] = "." THEN msg ELSE msg \o <<".">>
        n == FirstCharLen(m1)
    IN  UpperChar(SubSeq(m1, 1, n)) \o SubSeq(m1, n + 1, Len(m1))

\* C16: every logging call returns an entry, and at every level the message
\* of the entry it inserts is the input with a period appended if and only if it
\* had none at its end and with its first character upper-cased ("failed"
\* becomes "Failed.", "already done." becomes "Already done."), which
\* normalising again leaves unchanged.
C16_MessageNormalised ==
    /\ Len(heap) = calls.log
    /\ \A p \in Procs :
           pc[p] = "insertStore" =>
               /\ heap[frame[p].e].Message = Normalised(frame[p].msg)
               /\ frame[p].msg = <<"f", "a", "i", "l", "e", "d">>
                      => heap[frame[p].e].Message = <<"F", "a", "i", "l", "e", "d", ".">>
    /\ \A e \in 1..Len(heap) :
           heap[e].Level # "" => NormaliseMsg(heap[e].Message) = heap[e].Message

\* A step that changes a toggle changes nothing else: no buffered entry, no
\* status, no entry on the heap.
C17_ToggleChangesNothingElse ==
    (debug' # debug \/ runtime' # runtime) =>
        /\ logs' = logs /\ heap' = heap /\ finals' = finals
        /\ \A t \in ReqIds : EntrySeq(t)' = EntrySeq(t) /\ StoredStatus(t)' = StoredStatus(t)

\* Every entry is as the toggles were when its call was made, whatever they
\* are now: a Debug call made a real entry exactly when debug logging was
\* enabled, and an entry carries a call site exactly when capture was.
C17_EntriesAsAtCreation ==
    \A e \in 1..Len(heap) :
        /\ origin[e].level = "Debug" => (heap[e].Level = "Debug" <=> origin[e].debug)
        /\ heap[e].Level # "" =>
               /\ origin[e].runtime =>
                      \E c \in CallerResults :
                          /\ heap[e].File = CallSite(c).file
                          /\ heap[e].Function = CallSite(c).function
                          /\ heap[e].Line = CallSite(c).line
               /\ ~origin[e].runtime =>
                      heap[e].File = "" /\ heap[e].Function = "" /\ heap[e].Line = 0

\* An end drains every entry inserted before it, a Debug entry included
\* whatever debug is by then, and hands them to OnLog (when OnError did not
\* fire first).
C17_StillDelivered ==
    \A i \in 1..Len(finals) :
        finals[i].outcome = "return" =>
            /\ finals[i].first => Range(finals[i].drained) = finals[i].pre
            /\ (OnLog /\ OnErrorCalls(finals[i]) = {})
                   => \E j \in 1..Len(finals[i].invoked) :
                          finals[i].invoked[j].log.Entries = finals[i].drained

\* C17: SetDebug and SetRuntime change no buffered entry and no status, an
\* entry stays as the toggles were at its creation, and a Debug entry
\* inserted while debug logging was enabled is delivered at finalization
\* after it was disabled.
C17_TogglesNotRetroactive ==
    [](C17_EntriesAsAtCreation /\ C17_StillDelivered) /\ [][C17_ToggleChangesNothingElse]_vars

\* With debug logging and call-site capture switched off again, an end is
\* about to dispatch a Debug entry with a call site, made while both were
\* on, and an entry without one, made after capture was switched off.
C17_Witness ==
    /\ ~debug /\ ~runtime /\ OnLog /\ ~OnError
    /\ pc["p1"] = "endFinish"
    /\ \E d, e \in Range(frame["p1"].ee) :
           /\ heap[d].Level = "Debug" /\ origin[d].debug /\ origin[d].runtime
           /\ heap[d].File # ""
           /\ d < e /\ ~origin[e].runtime /\ heap[e].File = ""
    /\ Loaded(StatusKey("r"))

\* The lines of a text: its pieces between the "\n" pieces.
RECURSIVE SplitLines(_, _)
SplitLines(text, cur) ==
    IF text = <<>> THEN (IF cur = <<>> THEN <<>> ELSE <<cur>>)
    ELSE IF Head(text) = "\n" THEN <<cur>> \o SplitLines(Tail(text), <<>>)
    ELSE SplitLines(Tail(text), Append(cur, Head(text)))

\* A line of the form " <indent> <file>:<line> (<function>)".
IsCallSiteLine(line) ==
    /\ Len(line) >= 2
    /\ line[Len(line)] = ")"
    /\ \E k \in 1..Len(line) : line[k] = " ("

RenderedLog == finals[rendered.i].invoked[rendered.j].log

\* In the last rendering, the text of an entry whose File is empty has no
\* call-site line and no empty line, and the whole text is the header
\* followed by the entries' texts.
C18_NoCallSiteLineForEmptyFile ==
    rendered.fmt # "" =>
        /\ rendered.out = rendered.header \o Concat(rendered.parts)
        /\ Len(rendered.parts) = Len(RenderedLog.Entries)
        /\ \A k \in 1..Len(rendered.parts) :
               heap[RenderedLog.Entries[k]].File = "" =>
                   LET lines == SplitLines(rendered.parts[k], <<>>)
                   IN  /\ lines # <<>>
                       /\ \A n \in 1..Len(lines) :
                              lines[n] # <<>> /\ ~IsCallSiteLine(lines[n])

\* A rendering changes no entry, no record and nothing in the store.
C18_RenderingMutatesNothing ==
    rendered' # rendered =>
        /\ heap' = heap /\ finals' = finals /\ logs' = logs
        /\ RenderedLog' = finals[rendered'.i].invoked[rendered'.j].log

\* C18: FormatPretty and FormatTerse print no call-site line and no empty
\* line for an entry whose file path is empty, and change neither the record
\* nor its entries.
C18_CallSiteLineOmitted ==
    []C18_NoCallSiteLineForEmptyFile /\ [][C18_RenderingMutatesNothing]_vars

\* FormatPretty rendered a record of two entries: the first has a call site
\* and its text ends with the call-site line, the second has none, an
\* annotation and a message of two lines, and its text is the separator, the
\* two message lines and the annotation line.
C18_Witness ==
    /\ rendered.fmt = "FormatPretty"
    /\ Len(RenderedLog.Entries) = 2
    /\ LET a == heap[RenderedLog.Entries[1]]
           b == heap[RenderedLog.Entries[2]]
           la == SplitLines(rendered.parts[1], <<>>)
           lb == SplitLines(rendered.parts[2], <<>>)
       IN  /\ a.File = StorydevsFile
           /\ la[Len(la)] = <<" |  ", "/app/h.go", ":", "12", " (", "app.Handler", ")">>
           /\ b.File = "" /\ Len(b.KeyVals) = 1
           /\ lb = << <<" |">>, <<" +- [Error] ", "A">>, <<"       ", "b", ".">>,
                      <<"       ", "k", " = ", "v">> >>

\* The observers one finalization invoked, by name and in order.
Observers(i) == [j \in 1..Len(finals[i].invoked) |-> finals[i].invoked[j].obs]

\* Each observer at most once, and OnError before OnLog.
C19_OrderAndOnce ==
    \A i \in 1..Len(finals) :
        Observers(i) \in {<<>>, <<"OnLog">>, <<"OnError">>, <<"OnError", "OnLog">>}

\* The observers are invoked by the step of end in which it returns and by
\* no other: a finalization is recorded with its invocations when a
\* goroutine leaves end, and gains none afterwards.
C19_InsideEnd ==
    /\ Len(finals') >= Len(finals)
    /\ \A i \in 1..Len(finals) : finals'[i] = finals[i]
    /\ Len(finals') > Len(finals) =>
           /\ Len(finals') = Len(finals) + 1
           /\ \E p \in Procs :
                  /\ pc[p] \in {"endDelete", "endFinish"}
                  /\ pc'[p] \notin {"endDelete", "endFinish"}
                  /\ finals'[Len(finals')].id = frame[p].id

\* When end is about to call the observers, the sequence its Load found is
\* out of the store: the key is absent, unless an insert has stored since,
\* and then the stored sequence holds an entry the end did not drain.
C19_RemovedBeforeObservers ==
    \A p \in Procs :
        pc[p] = "endFinish" =>
            /\ Loaded(frame[p].id) =>
                   Range(logs[frame[p].id].ee) \ Range(frame[p].ee) # {}
            /\ (InFlight(frame[p].id) = {} /\ ReturnedOn(frame[p].id) = frame[p].pre)
                   => ~Loaded(frame[p].id)

InsertedBefore(i) == UNION {finals[k].pre : k \in 1..(i - 1)}
DrainedEver == UNION {Range(finals[i].drained) : i \in 1..Len(finals)}

\* Between calls, the store holds for "r", in order of insertion, exactly the
\* entries inserted since the last finalization, and no key at all when
\* there is none: after a finalization nothing, after a later insert only
\* the new entries.
C20_StoreHoldsOnlyNewEntries ==
    pc["p1"] = "idle" =>
        /\ Loaded("r") <=> ReturnedOn("r") \ DrainedEver # {}
        /\ Loaded("r") =>
               /\ logs["r"].type = "entries"
               /\ Range(logs["r"].ee) = ReturnedOn("r") \ DrainedEver
               /\ \A a, b \in 1..Len(logs["r"].ee) : a < b => logs["r"].ee[a] < logs["r"].ee[b]

\* A finalization drains exactly the entries inserted since the one before
\* it, so no entry is in two of them, and its records hold no other entry.
C20_DrainedOnce ==
    \A i \in 1..Len(finals) :
        /\ Range(finals[i].drained) = finals[i].pre \ InsertedBefore(i)
        /\ \A k \in 1..(i - 1) :
               Range(finals[k].drained) \cap Range(finals[i].drained) = {}
        /\ \A j \in 1..Len(finals[i].invoked) :
               Range(finals[i].invoked[j].log.Entries) \subseteq Range(finals[i].drained)

\* C20: after a finalization of a thread id the store holds no sequence for
\* it, an insert after that starts a new sequence of the new entries only,
\* and in a sequential history each entry is in the record of at most one
\* finalization, the first after its insert.
C20_ThreadLifecycle == C20_StoreHoldsOnlyNewEntries /\ C20_DrainedOnce

\* Two finalizations of "r" have each drained entries, the second those
\* inserted after the first, and an entry inserted after the second is
\* buffered alone.
C20_Witness ==
    /\ Len(finals) = 2
    /\ finals[1].drained # <<>> /\ finals[2].drained # <<>>
    /\ pc["p1"] = "idle"
    /\ Loaded("r") /\ Len(logs["r"].ee) = 1

\* While DataMulti runs, what it has appended to the entry is a prefix of
\* the KeyValuer's pairs.
C21_AppendsThePairsInOrder ==
    \A p \in Procs :
        pc[p] = "multiLoop" =>
            LET kv == heap[frame[p].e].KeyVals
            IN  /\ IsPrefix(frame[p].kv0, kv)
                /\ IsPrefix(SubSeq(kv, Len(frame[p].kv0) + 1, Len(kv)), frame[p].kvs)

\* When DataMulti returns, the entry's KeyVals are those it had at the call
\* followed by the KeyValuer's pairs.
C21_ExtendedOnReturn ==
    \A p \in Procs :
        (pc[p] = "multiLoop" /\ pc'[p] = "idle") =>
            heap'[frame[p].e].KeyVals = frame[p].kv0 \o frame[p].kvs

\* C21: Entry.DataMulti returns for every KeyValuer of finitely many pairs,
\* and has then appended exactly those pairs, each once and in order.
C21_DataMultiTerminates ==
    /\ []C21_AppendsThePairsInOrder
    /\ [][C21_ExtendedOnReturn]_vars
    /\ \A p \in Procs : (pc[p] = "multiLoop") ~> (pc[p] = "idle")

\* Every entry buffered under a key was logged with that key as thread id.
C22_BufferedUnderOwnId ==
    \A k \in DOMAIN logs :
        logs[k].type = "entries" =>
            \A e \in Range(logs[k].ee) : heap[e].ThreadId = k

\* Every finalization drained, and handed to the observers, only entries
\* logged with its thread id.
C22_RecordsHoldOwnEntries ==
    \A i \in 1..Len(finals) :
        /\ \A e \in Range(finals[i].drained) : heap[e].ThreadId = finals[i].id
        /\ \A j \in 1..Len(finals[i].invoked) :
               /\ finals[i].invoked[j].log.Id = finals[i].id
               /\ \A e \in Range(finals[i].invoked[j].log.Entries) :
                      heap[e].ThreadId = finals[i].id

\* A step of a logging call or of an end on thread id t leaves what the
\* store holds under every other key as it was.
C22_OthersUnchanged ==
    \A p \in Procs :
        pc'[p] # pc[p] =>
            LET t == IF pc[p] = "idle" THEN frame'[p].id ELSE frame[p].id
            IN  \A u \in ((DOMAIN logs) \cup (DOMAIN logs')) \ {t} :
                    /\ u \in DOMAIN logs /\ u \in DOMAIN logs'
                    /\ logs'[u] = logs[u]

\* C22: an entry is buffered only under its own thread id, an insert or a
\* finalization on one thread id leaves the sequences of the others
\* unchanged, and a record dispatched for a thread id holds only entries
\* logged with it, in every interleaving.
C22_ThreadIsolation ==
    [](C22_BufferedUnderOwnId /\ C22_RecordsHoldOwnEntries) /\ [][C22_OthersUnchanged]_vars

\* A record was dispatched for "r" with an entry that was logged while an
\* insert on "r_status" was in flight, and the entry of that insert is now
\* buffered under "r_status".
C22_Witness ==
    \E i \in 1..Len(finals) :
        /\ finals[i].id = "r" /\ finals[i].outcome = "return"
        /\ finals[i].invoked # <<>>
        /\ Loaded("r_status") /\ logs["r_status"].type = "entries"
        /\ \E a \in Range(logs["r_status"].ee), b \in Range(finals[i].invoked[1].log.Entries) :
               a < b

====
